---- MODULE Spec2Model ----
(***************************************************************************)
(* Optical Setup Designer: the application state held by App.tsx (component *)
(* registry, selection, sweep settings, stored simulation result, the       *)
(* isSimulating flag) and the handlers that change it.                      *)
(*                                                                         *)
(* Numbers are JavaScript numbers in the source; the model keeps them as    *)
(* integers.  Property values are held in tenths (wavelength 632.8 is 6328, *)
(* refractiveIndex 1.5 is 15) so that the defaults are integers.            *)
(***************************************************************************)
EXTENDS Integers, Sequences, FiniteSets, TLC

VARIABLES components, selectedId, simulationSettings, simulationResult,
          isSimulating, inflight, nextReq, now, lastOp, updatesDone,
          transform, overlay

vars ==
    <<components, selectedId, simulationSettings, simulationResult,
      isSimulating, inflight, nextReq, now, lastOp, updatesDone,
      transform, overlay>>

\* The viewport of the diagram and what the Canvas has drawn over it, which
\* no handler of App.tsx reads or writes.
canvas ==
    <<transform, overlay>>

\* The counter of the exploration, which no handler of App.tsx reads.
budget ==
    <<updatesDone>>

(***************************************************************************)
(* Bounds of the exploration.                                              *)
(***************************************************************************)
MaxComponents == 2
MaxRuns == 2
MaxUpdates == 1

(***************************************************************************)
(* Values.                                                                 *)
(***************************************************************************)
\* JavaScript null for selectedId (ids are strings).
NULL == "null"

\* JavaScript null for simulationResult (results are records).
NoResult == [isNull |-> TRUE]

\* The overlay before the Canvas has rendered.
NotRendered == [rendered |-> FALSE]

\* Readings of Date.now() in generateId: two consecutive milliseconds.
Instants == {0, 1}

\* Outcomes of Math.random().toString(36).substr(2, 9) in generateId.
RandomStrings == {"k3x9a", "p0q7z"}

ComponentTypes == {"source", "mirror", "lens", "detector"}

\* Sidebar.tsx componentTypes: the entries the sidebar offers.
componentTypes ==
    { [base |-> "lens", label |-> "Lens"],
      [base |-> "mirror", label |-> "Mirror"],
      [base |-> "mirror", label |-> "Beam Splitter"],
      [base |-> "lens", label |-> "Prism"],
      [base |-> "lens", label |-> "Aperture"],
      [base |-> "lens", label |-> "Optical Fiber"],
      [base |-> "lens", label |-> "Diffraction Grating"],
      [base |-> "lens", label |-> "Optical Filter"],
      [base |-> "lens", label |-> "Lens Array"],
      [base |-> "polarizer", label |-> "Polarizer"],
      [base |-> "polarizer", label |-> "Analyzer"],
      [base |-> "polarizer", label |-> "Wave Plate"],
      [base |-> "lens", label |-> "Modulator"],
      [base |-> "source", label |-> "Laser Diode"],
      [base |-> "source", label |-> "LED Source"],
      [base |-> "source", label |-> "Point Source"],
      [base |-> "source", label |-> "Collimated Source"],
      [base |-> "detector", label |-> "Photodiode"],
      [base |-> "detector", label |-> "CCD Sensor"],
      [base |-> "detector", label |-> "Spectrometer"],
      [base |-> "detector", label |-> "Power Meter"],
      [base |-> "lens", label |-> "Microscope"],
      [base |-> "lens", label |-> "Telescope"],
      [base |-> "mirror", label |-> "Interferometer"],
      [base |-> "mirror", label |-> "Optical Cavity"] }

\* The sidebar buttons the exploration clicks: an entry of a declared kind
\* and an entry of the undeclared kind 'polarizer'.
ClickedLabels == {"Prism", "Polarizer"}

ClickedEntries ==
    {e \in componentTypes : e.label \in ClickedLabels}

\* helpers.ts generateId: `${type}-${Date.now()}-${random}`.
generateId(type, t, rnd) ==
    type \o "-" \o ToString(t) \o "-" \o rnd

\* helpers.ts getDefaultProperties (values in tenths).
getDefaultProperties(type) ==
    CASE type = "source" ->
           [angle |-> 0, wavelength |-> 6328, intensity |-> 1000]
      [] type = "mirror" ->
           [reflectivity |-> 950, width |-> 500]
      [] type = "lens" ->
           [focalLength |-> 1000, diameter |-> 500, refractiveIndex |-> 15]
      [] type = "detector" ->
           [sensitivity |-> 900, width |-> 500]
      [] OTHER -> << >>

\* types/optical: the property fields of each kind.
KindFields(type) ==
    CASE type = "source" -> {"angle", "wavelength", "intensity"}
      [] type = "mirror" -> {"reflectivity", "width"}
      [] type = "lens" -> {"focalLength", "diameter", "refractiveIndex"}
      [] type = "detector" -> {"sensitivity", "width"}
      [] OTHER -> {}

Ids(comps) ==
    {comps[i].id : i \in 1..Len(comps)}

NoOp ==
    [op |-> "init", id |-> NULL, found |-> FALSE, args |-> << >>, alert |-> ""]

Op(name, id, found, args, alert) ==
    [op |-> name, id |-> id, found |-> found, args |-> args, alert |-> alert]

Init ==
    /\ components = << >>
    /\ selectedId = NULL
    /\ simulationSettings = [freqStart |-> 400, freqStop |-> 700, freqPoints |-> 10]
    /\ simulationResult = NoResult
    /\ isSimulating = FALSE
    /\ inflight = {}
    /\ nextReq = 0
    /\ now = 0
    /\ lastOp = NoOp
    /\ updatesDone = 0
    /\ transform = <<0, 0, 1>>
    /\ overlay = NotRendered

prependComponent(prev, newComponent) ==
    <<newComponent>> \o prev

\* setComponents((prev) => [...prev, newComponent])
appendComponent(prev, newComponent) ==
    Append(prev, newComponent)

\* App.tsx handleAddComponent.  Date.now() reads t, a time not before the last reading; rnd is the outcome
\* of Math.random().
handleAddComponent(type, displayName, t, rnd) ==
    /\ Len(components) < MaxComponents
    /\ now' = t
    /\ LET newComponent ==
               [id |-> generateId(type, t, rnd),
                type |-> type,
                position |-> [x |-> 200, y |-> 200],
                rotation |-> 0,
                properties |-> getDefaultProperties(type),
                displayName |-> displayName]
       IN /\ components' = appendComponent(components, newComponent)
          /\ lastOp' = Op("add", newComponent.id, FALSE,
                          [type |-> type, displayName |-> displayName], "")
    /\ UNCHANGED <<selectedId, simulationSettings, simulationResult,
                   isSimulating, inflight, nextReq, budget, canvas>>

\* The (id, updates) pairs passed to onUpdateComponent: rotation, position
\* and properties updates (PropertiesPanel.tsx handleRotationChange,
\* handlePositionChange, handlePropertyChange; Canvas onNodeDragStop).
\* The rotation slider's maximum.
RotationInputs == {360}

PositionInputs == {[x |-> 300, y |-> 100]}

\* A bundle with the fields of a mirror and, in addition, focalLength.
PropertiesInputs ==
    { [reflectivity |-> 500, width |-> 500, focalLength |-> 1000] }

UpdateInputs ==
    {[rotation |-> r] : r \in RotationInputs}
        \cup {[position |-> p] : p \in PositionInputs}
        \cup {[properties |-> P] : P \in PropertiesInputs}

\* An id that no component carries.
UnknownId == "mirror-0-gone"

IdInputs == Ids(components) \cup {UnknownId}

\* The calls of onUpdateComponent on a stored component.
UpdateCalls ==
    Ids(components) \X UpdateInputs

\* The object spread { ...comp, ...updates }: the fields of updates win.
Spread(comp, updates) ==
    updates @@ comp

\* App.tsx handleUpdateComponent.
handleUpdateComponent(id, updates) ==
    /\ components' =
           [i \in 1..Len(components) |->
               IF components[i].id = id
               THEN Spread(components[i], updates)
               ELSE components[i]]
    /\ lastOp' = Op("update", id, id \in Ids(components), updates, "")
    /\ id \in Ids(components) => updatesDone < MaxUpdates
    /\ updatesDone' = IF id \in Ids(components) THEN updatesDone + 1 ELSE updatesDone
    /\ UNCHANGED <<selectedId, simulationSettings, simulationResult,
                   isSimulating, inflight, nextReq, now, canvas>>

deselectAlways(sel, id) ==
    NULL

keepSelection(sel, id) ==
    sel

\* The selection after handleDeleteComponent(id).
deselect(sel, id) ==
    IF sel = id THEN NULL ELSE sel

\* App.tsx handleDeleteComponent.
handleDeleteComponent(id) ==
    /\ components' = SelectSeq(components, LAMBDA comp : comp.id # id)
    /\ selectedId' = deselect(selectedId, id)
    /\ lastOp' = Op("remove", id, id \in Ids(components), << >>, "")
    /\ UNCHANGED <<simulationSettings, simulationResult,
                   isSimulating, inflight, nextReq, now, budget, canvas>>

\* Canvas onNodeClick: a node of the diagram is clicked.
onNodeClick(id) ==
    /\ id \in Ids(components)
    /\ selectedId' = id
    /\ lastOp' = Op("select", id, TRUE, << >>, "")
    /\ UNCHANGED <<components, simulationSettings, simulationResult,
                   isSimulating, inflight, nextReq, now, budget, canvas>>

\* Canvas onPaneClick: the empty pane is clicked.
onPaneClick ==
    /\ selectedId' = NULL
    /\ lastOp' = Op("deselect", NULL, FALSE, << >>, "")
    /\ UNCHANGED <<components, simulationSettings, simulationResult,
                   isSimulating, inflight, nextReq, now, budget, canvas>>

(***************************************************************************)
(* The simulation gateway.  handleRunSimulation is an async function: the  *)
(* part before the await is one step (RunSubmit), the continuation after   *)
(* the engine answered is another (RunSucceeded or RunFailed).  inflight   *)
(* holds the suspended calls, numbered in the order they were started.     *)
(***************************************************************************)
NoComponentsMsg == "Please add some components first!"

SimulationFailedMsg == "Simulation failed. Make sure the backend server is running."

ImportFailedMsg == "Failed to import setup. Invalid file format."

\* api.ts simulateOpticalSetup: response.data of the n-th request.  The
\* engine is external; each request gets its own rays, path lengths and
\* sweep.
Response(n) ==
    [rays |-> << [id |-> "ray-" \o ToString(n),
                  points |-> << [x |-> 100, y |-> 100], [x |-> 500, y |-> 100] >>,
                  color |-> "#ff0000",
                  intensity |-> 100] >>,
     pathLengths |-> << [componentId |-> "path-of-" \o ToString(n), length |-> 400] >>,
     frequencySweep |-> << [frequency |-> 400, transmission |-> n] >>]

patchResult(prev, result) ==
    IF prev = NoResult THEN result ELSE [prev EXCEPT !.rays = result.rays]

\* setSimulationResult(result): the new stored result.
storeResult(prev, result) ==
    result

neverEmpty(comps) ==
    FALSE

\* if (components.length === 0)
hasNoComponents(comps) ==
    Len(comps) = 0

\* handleRunSimulation up to the await.  The handler does not read
\* isSimulating: only the Run buttons carry disabled={isSimulating}, so a
\* call while an earlier run is pending submits a second request.
RunSubmit ==
    IF hasNoComponents(components)
    THEN /\ lastOp' = Op("runRefused", NULL, FALSE, << >>, NoComponentsMsg)
         /\ UNCHANGED <<components, selectedId, simulationSettings,
                        simulationResult, isSimulating, inflight, nextReq, now, budget, canvas>>
    ELSE /\ nextReq < MaxRuns
         /\ isSimulating' = TRUE
         /\ nextReq' = nextReq + 1
         /\ inflight' = inflight \cup {nextReq + 1}
         /\ lastOp' = Op("runSubmit", ToString(nextReq + 1), FALSE, << >>, "")
         /\ UNCHANGED <<components, selectedId, simulationSettings,
                        simulationResult, now, budget, canvas>>

\* The await resolves: try-branch, then finally.
RunSucceeded(r) ==
    /\ r \in inflight
    /\ simulationResult' = storeResult(simulationResult, Response(r))
    /\ isSimulating' = FALSE
    /\ inflight' = inflight \ {r}
    /\ lastOp' = Op("runSucceeded", ToString(r), FALSE, << >>, "")
    /\ UNCHANGED <<components, selectedId, simulationSettings, nextReq, now, budget, canvas>>

clearResultOnFailure(prev) ==
    NoResult

\* The stored result after the catch branch of handleRunSimulation.
resultAfterFailure(prev) ==
    prev

\* The await rejects: catch-branch, then finally.
RunFailed(r) ==
    /\ r \in inflight
    /\ simulationResult' = resultAfterFailure(simulationResult)
    /\ isSimulating' = FALSE
    /\ inflight' = inflight \ {r}
    /\ lastOp' = Op("runFailed", ToString(r), FALSE, << >>, SimulationFailedMsg)
    /\ UNCHANGED <<components, selectedId, simulationSettings, nextReq, now, budget, canvas>>

(***************************************************************************)
(* Import.  A file is its text as JSON.parse sees it: text that does not   *)
(* parse (or parses to null, where reading setup.components throws), or an *)
(* object whose fields may be present or not.  A components field is an    *)
(* array of items or some other truthy value.                              *)
(***************************************************************************)
InvalidFile == [parses |-> FALSE]

ObjectFile(setup) == [parses |-> TRUE, setup |-> setup]

ArrayValue(items) == [isArray |-> TRUE, items |-> items]

NotAnArray == [isArray |-> FALSE]

DuplicateIdItems ==
    << [id |-> "mirror-5-dup00", type |-> "mirror",
        position |-> [x |-> 100, y |-> 100], rotation |-> 0,
        properties |-> [reflectivity |-> 950, width |-> 500],
        displayName |-> "Mirror"],
       [id |-> "mirror-5-dup00", type |-> "mirror",
        position |-> [x |-> 300, y |-> 100], rotation |-> 0,
        properties |-> [reflectivity |-> 950, width |-> 500],
        displayName |-> "Mirror"] >>

ImportFiles ==
    { InvalidFile,
      ObjectFile(<< >>),
      ObjectFile([components |-> NotAnArray]),
      ObjectFile([components |-> ArrayValue(DuplicateIdItems),
                  simulationSettings |->
                      [freqStart |-> 500, freqStop |-> 600, freqPoints |-> 5]]) }

\* The sweep settings after importedSettings = setup.simulationSettings ||
\* setup.settings; if (importedSettings) setSimulationSettings(importedSettings).
importedSettings(setup, current) ==
    IF "simulationSettings" \in DOMAIN setup THEN setup.simulationSettings
    ELSE IF "settings" \in DOMAIN setup THEN setup.settings
    ELSE current

\* App.tsx handleImportSetup, reader.onload.
handleImportSetup(file) ==
    /\ IF ~file.parses
       THEN /\ lastOp' = Op("import", NULL, FALSE, file, ImportFailedMsg)
            /\ UNCHANGED <<components, simulationSettings, simulationResult,
                           selectedId>>
       ELSE /\ components' =
                   IF /\ "components" \in DOMAIN file.setup
                      /\ file.setup.components.isArray
                   THEN file.setup.components.items
                   ELSE components
            /\ simulationSettings' =
                   importedSettings(file.setup, simulationSettings)
            /\ simulationResult' = NoResult
            /\ selectedId' = NULL
            /\ lastOp' = Op("import", NULL, FALSE, file, "")
    /\ UNCHANGED <<isSimulating, inflight, nextReq, now, budget, canvas>>

(***************************************************************************)
(* Export.  downloadJSON writes JSON.stringify(data, null, 2) to a file;   *)
(* the file is modelled by what JSON.parse reads back from that text.      *)
(* JSON has no NaN: JSON.stringify writes the number NaN as null.  NaN is  *)
(* what parseFloat(e.target.value) gives for a number field whose text was *)
(* cleared.  NaN and the JSON null are held as two numbers outside the     *)
(* range of the numbers the inputs use.                                    *)
(***************************************************************************)
NaN == -1000001

JsonNull == -1000002

\* A number after JSON.stringify and JSON.parse.
jsonNumber(n) ==
    IF n = NaN THEN JsonNull ELSE n

\* A component after JSON.stringify and JSON.parse.
jsonComponent(comp) ==
    [id |-> comp.id,
     type |-> comp.type,
     position |-> [x |-> jsonNumber(comp.position.x),
                   y |-> jsonNumber(comp.position.y)],
     rotation |-> jsonNumber(comp.rotation),
     properties |-> [f \in DOMAIN comp.properties |->
                        jsonNumber(comp.properties[f])],
     displayName |-> comp.displayName]

\* helpers.ts downloadJSON(data, filename): the downloaded file.
downloadJSON(data) ==
    ObjectFile([components |->
                    ArrayValue([i \in 1..Len(data.components) |->
                                   jsonComponent(data.components[i])]),
                simulationSettings |->
                    [f \in DOMAIN data.simulationSettings |->
                        jsonNumber(data.simulationSettings[f])]])

\* App.tsx handleExportSetup.
handleExportSetup ==
    /\ lastOp' = Op("export", NULL, FALSE,
                    downloadJSON([components |-> components,
                                  simulationSettings |-> simulationSettings]),
                    "")
    /\ UNCHANGED <<components, selectedId, simulationSettings, simulationResult,
                   isSimulating, inflight, nextReq, now, budget, canvas>>

\* The file that was just exported is imported.
ImportExportedStep ==
    /\ lastOp.op = "export"
    /\ handleImportSetup(lastOp.args)

\* PropertiesPanel handlePositionChange('x', parseFloat('')): the X field of
\* a stored component is cleared.
ClearFieldStep ==
    \E i \in 1..Len(components) :
        handleUpdateComponent(components[i].id,
            [position |-> [x |-> NaN, y |-> components[i].position.y]])

(***************************************************************************)
(* The Canvas overlay (Canvas.tsx).  prisms, dispersionPolys and           *)
(* sourceHalos are computed from the components and the rays of the stored  *)
(* result; the svg group draws them under the viewport transform.          *)
(*                                                                         *)
(* The source computes with floating-point numbers; the model computes the *)
(* same expressions exactly.  A distance is held as its square, a fraction *)
(* num/den, so that no square root is taken; an angle is held in           *)
(* milliradians; opacity is held in hundredths.                            *)
(***************************************************************************)
threshold == 24

deflectBase == 180

L == 240

spectralColors ==
    << "#8B00FF", "#0000FF", "#00FF00", "#FFFF00", "#FFA500", "#FF0000" >>

\* rays={simulationResult?.rays || []}
raysOf(result) ==
    IF result = NoResult THEN << >> ELSE result.rays

\* c.displayName || ''
displayNameOrEmpty(c) ==
    IF "displayName" \in DOMAIN c THEN c.displayName ELSE ""

sameCase(s) ==
    s

\* String.prototype.toLowerCase on the labels the scenes use.
toLowerCase(s) ==
    CASE s = "Prism" -> "prism"
      [] s = "PRISM" -> "prism"
      [] s = "prism" -> "prism"
      [] s = "prism " -> "prism "
      [] s = "Lens" -> "lens"
      [] s = "Mirror" -> "mirror"
      [] s = "Polarizer" -> "polarizer"
      [] s = "" -> ""

\* const prisms = components.filter(...)
prisms(comps) ==
    SelectSeq(comps, LAMBDA c : toLowerCase(displayNameOrEmpty(c)) = "prism")

Abs(n) ==
    IF n < 0 THEN -n ELSE n

RECURSIVE GCD(_, _)
\* The greatest common divisor, to hold dot / len_sq in lowest terms.
GCD(a, b) ==
    IF b = 0 THEN a ELSE GCD(b, a % b)

clampToStartOnly(param, x1, x2, C) ==
    IF param.n < 0 THEN x1 * param.d
    ELSE IF param.n > param.d THEN x1 * param.d
    ELSE x1 * param.d + param.n * C

\* xx (or yy) of distancePointToSegment times the denominator of param: the
\* start of the segment when param < 0, its end when param > 1, the
\* projection x1 + param * C otherwise.
closest(param, x1, x2, C) ==
    IF param.n < 0 THEN x1 * param.d
    ELSE IF param.n > param.d THEN x2 * param.d
    ELSE x1 * param.d + param.n * C

\* distancePointToSegment(px, py, x1, y1, x2, y2), squared: the fraction
\* num/den is dx * dx + dy * dy.  param is the fraction n/d in lowest terms
\* with d > 0, so param < 0 is n < 0 and param > 1 is n > d.
distancePointToSegment(px, py, x1, y1, x2, y2) ==
    LET A == px - x1
        B == py - y1
        C == x2 - x1
        D == y2 - y1
        dot == A * C + B * D
        len_sq == C * C + D * D
        g == GCD(Abs(dot), len_sq)
        param == IF len_sq # 0
                 THEN [n |-> dot \div g, d |-> len_sq \div g]
                 ELSE [n |-> -1, d |-> 1]
        dx == px * param.d - closest(param, x1, x2, C)
        dy == py * param.d - closest(param, y1, y2, D)
    IN [num |-> dx * dx + dy * dy, den |-> param.d * param.d]

nearerThan(d, limit) ==
    d.num < limit * limit * d.den

\* d <= limit, for a squared distance d.
atMost(d, limit) ==
    d.num <= limit * limit * d.den

RECURSIVE Flatten(_)
\* The pushes of the nested loops, in the order they are made.
Flatten(seqs) ==
    IF seqs = << >> THEN << >> ELSE Head(seqs) \o Flatten(Tail(seqs))

\* The segment from pts[i] to pts[i+1] of a ray, i counted from 0 as in the
\* source: p1, p2, (dirX, dirY) and the square of segLen =
\* Math.hypot(dirX, dirY) || 1.
segment(ray, i) ==
    LET p1 == ray.points[i + 1]
        p2 == ray.points[i + 2]
        dirX == p2.x - p1.x
        dirY == p2.y - p1.y
        hypotSq == dirX * dirX + dirY * dirY
    IN [p1 |-> p1, p2 |-> p2, dirX |-> dirX, dirY |-> dirY,
        segLenSq |-> IF hypotSq = 0 THEN 1 ELSE hypotSq]

halfAngle(k) ==
    deflectBase \div 2

\* angle = (t * 0.5 + 0.5) * deflectBase with t = (n - 1 - k) / (n - 1), in
\* milliradians (t is held in thousandths).
angle(k) ==
    LET n == Len(spectralColors)
        t == ((n - 1 - k) * 1000) \div (n - 1)
    IN ((t \div 2 + 500) * deflectBase) \div 1000

\* The poly pushed for colour k (from 0) of the fan of one ray segment and
\* one prism.  end is start + (rx * L, ry * L), where (rx, ry) is the
\* vector (ux, uy) = (dirX, dirY) / segLen turned by angle; it is held by
\* the values it is computed from.
poly(ray, i, k, prism) ==
    LET seg == segment(ray, i)
        start == [x |-> prism.position.x, y |-> prism.position.y]
    IN [id |-> "disp-" \o ray.id \o "-" \o ToString(i) \o "-" \o ToString(k),
        points |-> << start,
                      [from |-> start,
                       dirX |-> seg.dirX, dirY |-> seg.dirY,
                       segLenSq |-> seg.segLenSq,
                       angle |-> angle(k),
                       L |-> L] >>,
        color |-> spectralColors[k + 1],
        opacity |-> 85,
        width |-> 2]

\* The square of the distance from start to end of a poly: L * L times the
\* square of the length of (ux, uy), a turn keeping lengths.
endDistanceSq(end) ==
    end.L * end.L * ((end.dirX * end.dirX + end.dirY * end.dirY) \div end.segLenSq)

fanAlways(ray, i, prism) ==
    [k \in 1..Len(spectralColors) |-> poly(ray, i, k - 1, prism)]

\* The body of "for (const prism of prisms)" for one prism.
fan(ray, i, prism) ==
    LET seg == segment(ray, i)
        d == distancePointToSegment(prism.position.x, prism.position.y,
                                    seg.p1.x, seg.p1.y, seg.p2.x, seg.p2.y)
    IN IF atMost(d, threshold)
       THEN [k \in 1..Len(spectralColors) |-> poly(ray, i, k - 1, prism)]
       ELSE << >>

\* The body of rays.forEach for one ray.
rayFans(ray, ps) ==
    Flatten([i \in 1..(Len(ray.points) - 1) |->
                Flatten([c \in 1..Len(ps) |-> fan(ray, i - 1, ps[c])])])

\* const dispersionPolys = useMemo(...)
dispersionPolys(rays, ps) ==
    IF Len(rays) = 0 \/ Len(ps) = 0
    THEN << >>
    ELSE Flatten([r \in 1..Len(rays) |-> rayFans(rays[r], ps)])

\* const sourceHalos = useMemo(...)
sourceHalos(comps) ==
    LET srcs == SelectSeq(comps, LAMBDA c : c.type = "source")
    IN [j \in 1..Len(srcs) |-> [x |-> srcs[j].position.x, y |-> srcs[j].position.y]]

\* const tx = transform?.[0] ?? 0
tx(tr) ==
    IF Len(tr) >= 1 THEN tr[1] ELSE 0

\* const ty = transform?.[1] ?? 0
ty(tr) ==
    IF Len(tr) >= 2 THEN tr[2] ELSE 0

zoomOrZero(tr) ==
    IF Len(tr) >= 3 THEN tr[3] ELSE 0

\* const zoom = transform?.[2] ?? 1
zoom(tr) ==
    IF Len(tr) >= 3 THEN tr[3] ELSE 1

\* svg scale(z) applied to a point.
scale(p, z) ==
    [x |-> p.x * z, y |-> p.y * z]

\* svg translate(dx, dy) applied to a point.
translate(p, dx, dy) ==
    [x |-> p.x + dx, y |-> p.y + dy]

scaleAfterTranslate(p, tr) ==
    scale(translate(p, tx(tr), ty(tr)), zoom(tr))

\* <g transform="translate(tx, ty) scale(zoom)">: a transform list applies
\* its last entry first, so a point of a child is scaled, then translated.
groupTransform(p, tr) ==
    translate(scale(p, zoom(tr)), tx(tr), ty(tr))

\* React.useMemo(() => value, deps) in a render that follows the render
\* prev: the value of the earlier render is kept when the dependencies are
\* the ones it was computed from.  React compares dependencies by
\* reference; the handlers of App.tsx never change an array in place, so
\* the same reference holds the same value, and a new reference with the
\* same value recomputes that value.
useMemo(prev, name, deps, value) ==
    IF prev.rendered /\ prev.deps[name] = deps
    THEN prev[name]
    ELSE value

\* [components], the dependencies of prisms.
prismsDeps(comps) ==
    << comps >>

raysOnly(rays, ps) ==
    << rays >>

\* [rays, prisms], the dependencies of dispersionPolys.
dispersionPolysDeps(rays, ps) ==
    << rays, ps >>

\* [components], the dependencies of sourceHalos.
sourceHalosDeps(comps) ==
    << comps >>

\* One render of the Canvas after the render prev, with the props comps and
\* rays and the viewport tr: the memoised values, the dependencies they
\* were computed from, tx, ty and zoom, and, for the children of the svg
\* group, the screen points of the world points they are drawn at (of a
\* dispersion polyline, its start).
Canvas(comps, rays, tr, prev) ==
    LET ps == useMemo(prev, "prisms", prismsDeps(comps), prisms(comps))
        polys == useMemo(prev, "dispersionPolys", dispersionPolysDeps(rays, ps),
                         dispersionPolys(rays, ps))
        halos == useMemo(prev, "sourceHalos", sourceHalosDeps(comps),
                         sourceHalos(comps))
    IN [rendered |-> TRUE,
        props |-> [components |-> comps, rays |-> rays],
        deps |-> [prisms |-> prismsDeps(comps),
                  dispersionPolys |-> dispersionPolysDeps(rays, ps),
                  sourceHalos |-> sourceHalosDeps(comps)],
        prisms |-> ps,
        dispersionPolys |-> polys,
        sourceHalos |-> halos,
        view |-> [tx |-> tx(tr), ty |-> ty(tr), zoom |-> zoom(tr)],
        screen |->
            [halos |-> [j \in 1..Len(halos) |-> groupTransform(halos[j], tr)],
             rays |-> [r \in 1..Len(rays) |->
                          [j \in 1..Len(rays[r].points) |->
                              groupTransform(rays[r].points[j], tr)]],
             polys |-> [j \in 1..Len(polys) |->
                           groupTransform(polys[j].points[1], tr)]]]

\* The Canvas renders with the current props and viewport.
Render ==
    /\ overlay' = Canvas(components, raysOf(simulationResult), transform, overlay)
    /\ UNCHANGED <<components, selectedId, simulationSettings, simulationResult,
                   isSimulating, inflight, nextReq, now, lastOp, budget,
                   transform>>

\* The diagram is panned or zoomed: the store's transform changes and the
\* Canvas, which subscribes to it with useStore, renders again.
onViewportChange(tr) ==
    /\ overlay # NotRendered
    /\ tr # transform
    /\ transform' = tr
    /\ overlay' = Canvas(components, raysOf(simulationResult), tr, overlay)
    /\ UNCHANGED <<components, selectedId, simulationSettings, simulationResult,
                   isSimulating, inflight, nextReq, now, lastOp, budget>>

(***************************************************************************)
(* Scenes for the overlay: component lists and engine results the Canvas   *)
(* is given as props.                                                      *)
(***************************************************************************)
MaxSceneComponents == 2

SceneComponent(id, type, x, y) ==
    [id |-> id, type |-> type, position |-> [x |-> x, y |-> y],
     rotation |-> 0, properties |-> getDefaultProperties(type)]

Labelled(comp, displayName) ==
    comp @@ [displayName |-> displayName]

SceneItems ==
    { Labelled(SceneComponent("lens-1-aaaaa", "lens", 300, 100), "Prism"),
      Labelled(SceneComponent("mirror-2-bbbbb", "mirror", 300, 124), "PRISM"),
      Labelled(SceneComponent("lens-3-ccccc", "lens", 300, 125), "Prism"),
      Labelled(SceneComponent("lens-4-ddddd", "lens", 300, 100), "Lens"),
      Labelled(SceneComponent("lens-5-eeeee", "lens", 300, 100), "prism "),
      SceneComponent("source-6-fffff", "source", 100, 100),
      Labelled(SceneComponent("lens-7-ggggg", "lens", 1300, 1100), "Prism"),
      Labelled(SceneComponent("source-8-hhhhh", "source", 520, 100), "prism"),
      Labelled(SceneComponent("lens-9-iiiii", "lens", 76, 100), "Prism"),
      SceneComponent("source-10-jjjjj", "source", 50, 50) }

\* The lists of up to MaxSceneComponents different components.
Scenes ==
    UNION { { sc \in [1..n -> SceneItems] :
                  \A i, j \in 1..n : i # j => sc[i] # sc[j] } :
            n \in 0..MaxSceneComponents }

SceneRay(id, points) ==
    [id |-> id, points |-> points, color |-> "#ff0000", intensity |-> 100]

SceneRays ==
    { << >>,
      << SceneRay("ray-1", << [x |-> 100, y |-> 100], [x |-> 500, y |-> 100] >>) >>,
      << SceneRay("ray-2", << [x |-> 100, y |-> 100], [x |-> 300, y |-> 100],
                              [x |-> 300, y |-> 300] >>) >>,
      << SceneRay("ray-3", << [x |-> 300, y |-> 100], [x |-> 300, y |-> 100] >>) >>,
      << SceneRay("ray-1", << [x |-> 100, y |-> 100], [x |-> 500, y |-> 100] >>),
         SceneRay("ray-4", << [x |-> 200, y |-> 0], [x |-> 400, y |-> 200] >>) >> }

SceneResults ==
    {NoResult} \cup
    { [rays |-> rays, pathLengths |-> << >>, frequencySweep |-> << >>] :
          rays \in SceneRays }

\* The transform of the store: none, one lacking entries, and whole ones.
Transforms ==
    { << >>, <<7>>, <<0, 0, 1>>, <<10, -5, 2>> }

\* The Canvas is mounted over some scene and has not rendered yet.
InitCanvas ==
    /\ components \in Scenes
    /\ simulationResult \in SceneResults
    /\ transform \in Transforms
    /\ overlay = NotRendered
    /\ selectedId = NULL
    /\ simulationSettings = [freqStart |-> 400, freqStop |-> 700, freqPoints |-> 10]
    /\ isSimulating = FALSE
    /\ inflight = {}
    /\ nextReq = 0
    /\ now = 0
    /\ lastOp = NoOp
    /\ updatesDone = 0

ViewportStep ==
    \E tr \in Transforms : onViewportChange(tr)

(***************************************************************************)
(* The properties panel.  Its handlers build an update from the            *)
(* selectedComponent prop of the panel's last render and pass it to        *)
(* onUpdateComponent.  Two edits made before the panel renders again are   *)
(* built from the same selectedComponent; App applies the two              *)
(* setComponents(prev => ...) calls one after the other.                   *)
(***************************************************************************)
\* const selectedComponent = components.find(c => c.id === selectedId)
selectedComponents ==
    SelectSeq(components, LAMBDA c : c.id = selectedId)

\* prev.map(comp => comp.id === id ? { ...comp, ...updates } : comp)
mapUpdate(prev, id, updates) ==
    [i \in 1..Len(prev) |->
        IF prev[i].id = id THEN Spread(prev[i], updates) ELSE prev[i]]

\* The updates handlePropertyChange(key, value) passes on.
handlePropertyChange(selectedComponent, key, value) ==
    [properties |-> (key :> value) @@ selectedComponent.properties]

\* The updates handlePositionChange(axis, value) passes on.
handlePositionChange(selectedComponent, axis, value) ==
    [position |-> (axis :> value) @@ selectedComponent.position]

\* Pairs of edits of different fields: two property fields, or x and y.
EditPairs ==
    { [kind |-> "properties",
       first |-> [key |-> "focalLength", value |-> 2000],
       second |-> [key |-> "diameter", value |-> 600]],
      [kind |-> "position",
       first |-> [key |-> "x", value |-> 300],
       second |-> [key |-> "y", value |-> 100]] }

\* The updates of one edit of a pair.
editUpdates(selectedComponent, kind, edit) ==
    IF kind = "properties"
    THEN handlePropertyChange(selectedComponent, edit.key, edit.value)
    ELSE handlePositionChange(selectedComponent, edit.key, edit.value)

\* Two edits of the selected component between two renders of the panel.
PanelEdits(pair) ==
    /\ Len(selectedComponents) > 0
    /\ updatesDone < MaxUpdates
    /\ LET selectedComponent == selectedComponents[1]
           first == editUpdates(selectedComponent, pair.kind, pair.first)
           second == editUpdates(selectedComponent, pair.kind, pair.second)
       IN components' = mapUpdate(mapUpdate(components, selectedComponent.id, first),
                                  selectedComponent.id, second)
    /\ lastOp' = Op("edits", selectedId, TRUE, pair, "")
    /\ updatesDone' = updatesDone + 1
    /\ UNCHANGED <<selectedId, simulationSettings, simulationResult,
                   isSimulating, inflight, nextReq, now, canvas>>

PanelEditsStep ==
    \E pair \in EditPairs : PanelEdits(pair)

AddStep ==
    \E e \in ClickedEntries, t \in {i \in Instants : i >= now}, rnd \in RandomStrings :
        handleAddComponent(e.base, e.label, t, rnd)

UpdateStep ==
    \E call \in UpdateCalls : handleUpdateComponent(call[1], call[2])

\* onUpdateComponent with an id that is not stored.
UnknownUpdateStep ==
    handleUpdateComponent(UnknownId, [rotation |-> 360])

DeleteStep ==
    \E id \in IdInputs : handleDeleteComponent(id)

SelectStep ==
    \E id \in Ids(components) : onNodeClick(id)

ImportStep ==
    \E file \in ImportFiles : handleImportSetup(file)

SucceedStep ==
    \E r \in inflight : RunSucceeded(r)

FailStep ==
    \E r \in inflight : RunFailed(r)

\* Every handler.
Next ==
    \/ ImportStep
    \/ AddStep
    \/ UpdateStep
    \/ UnknownUpdateStep
    \/ DeleteStep
    \/ SelectStep
    \/ onPaneClick
    \/ RunSubmit
    \/ SucceedStep
    \/ FailStep
    \/ ClearFieldStep
    \/ handleExportSetup
    \/ ImportExportedStep

Spec == Init /\ [][Next]_vars

\* Export and import of the exported file, after add, update and remove.
NextRoundTrip ==
    \/ AddStep
    \/ UpdateStep
    \/ ClearFieldStep
    \/ DeleteStep
    \/ handleExportSetup
    \/ ImportExportedStep

SpecRoundTrip == Init /\ [][NextRoundTrip]_vars

\* The overlay of the Canvas over a given scene.
NextCanvas ==
    \/ Render
    \/ ViewportStep

SpecCanvas == InitCanvas /\ [][NextCanvas]_vars

\* The Canvas has rendered with the current components and rays.
Committed ==
    /\ overlay.rendered
    /\ overlay.props = [components |-> components,
                        rays |-> raysOf(simulationResult)]

\* A design with one source, as an import leaves it; the Canvas has not
\* rendered yet.
InitOverlay ==
    /\ components = << SceneComponent("source-6-fffff", "source", 100, 100) >>
    /\ selectedId = NULL
    /\ simulationSettings = [freqStart |-> 400, freqStop |-> 700, freqPoints |-> 10]
    /\ simulationResult = NoResult
    /\ isSimulating = FALSE
    /\ inflight = {}
    /\ nextReq = 0
    /\ now = 0
    /\ lastOp = NoOp
    /\ updatesDone = 0
    /\ transform = <<0, 0, 1>>
    /\ overlay = NotRendered

\* Sidebar: the Prism entry is clicked.
AddPrismStep ==
    \E e \in {c \in ClickedEntries : c.label = "Prism"} :
        handleAddComponent(e.base, e.label, now, "k3x9a")

\* Canvas onNodeDragStop: a node is dropped on the path of the ray.
DragStep ==
    \E id \in Ids(components) :
        handleUpdateComponent(id, [position |-> [x |-> 300, y |-> 100]])

\* A stored component is deleted.
DeleteStoredStep ==
    \E id \in Ids(components) : handleDeleteComponent(id)

\* A file with a component list is imported.
ImportListStep ==
    \E file \in {f \in ImportFiles : f.parses /\ "components" \in DOMAIN f.setup
                                              /\ f.setup.components.isArray} :
        handleImportSetup(file)

\* The handlers that change the components or the rays, each followed by
\* the render React schedules for the state change: the next event is
\* handled after that render.
NextOverlay ==
    \/ Committed /\ AddPrismStep
    \/ Committed /\ DragStep
    \/ Committed /\ DeleteStoredStep
    \/ Committed /\ ImportListStep
    \/ Committed /\ RunSubmit
    \/ Committed /\ SucceedStep
    \/ ~Committed /\ Render

SpecOverlay == InitOverlay /\ [][NextOverlay]_vars

\* The properties panel over the registry.
NextPanel ==
    \/ AddStep
    \/ SelectStep
    \/ UpdateStep
    \/ PanelEditsStep

SpecPanel == Init /\ [][NextPanel]_vars

\* The component registry and the selection: no simulation is run.
NextRegistry ==
    \/ ImportStep
    \/ AddStep
    \/ UpdateStep
    \/ UnknownUpdateStep
    \/ DeleteStep
    \/ SelectStep
    \/ onPaneClick

SpecRegistry == Init /\ [][NextRegistry]_vars

\* The simulation gateway: components are added, removed and imported;
\* no stored component is edited.
NextGateway ==
    \/ AddStep
    \/ ImportStep
    \/ UnknownUpdateStep
    \/ DeleteStep
    \/ SelectStep
    \/ onPaneClick
    \/ RunSubmit
    \/ SucceedStep
    \/ FailStep

SpecGateway == Init /\ [][NextGateway]_vars

(***************************************************************************)
(* Properties.                                                             *)
(***************************************************************************)
Stored == 1..Len(components)

\* The request whose response a stored result is.
ReqOf(result) ==
    CHOOSE n \in 1..nextReq : Response(n) = result

\* C1: last-started-wins: the response of an earlier run is never stored
\* over the response of a run that was started later.
LastStartedWins ==
    [][(simulationResult # NoResult /\ simulationResult' # NoResult)
          => ReqOf(simulationResult') >= ReqOf(simulationResult)]_vars

ResultIsOneResponse ==
    \/ simulationResult = NoResult
    \/ \E n \in 1..nextReq : simulationResult = Response(n)

\* The second run has succeeded after the first one and replaced its result.
SecondResultWitness ==
    /\ lastOp.op = "runSucceeded"
    /\ lastOp.id = "2"
    /\ inflight = {}
    /\ simulationResult = Response(2)

\* The value the rotation r is to be stored as, ((r % 360) + 360) % 360 with
\* the remainder of JavaScript; it is r modulo 360.
NormalizedRotation(r) ==
    ((r % 360) + 360) % 360

\* C4: a rotation update to r stores ((r % 360) + 360) % 360, and every
\* stored rotation lies in [0,360).
RotationNormalized ==
    /\ [][\A i \in Stored :
            (/\ lastOp'.op = "update"
             /\ "rotation" \in DOMAIN lastOp'.args
             /\ components[i].id = lastOp'.id)
               => components'[i].rotation = NormalizedRotation(lastOp'.args.rotation)]_vars
    /\ [](\A i \in Stored : components[i].rotation \in 0..359)

\* C5: a properties update of a component of a declared kind stores no
\* field outside the bundle of that kind.
OnlyKindFieldsStored ==
    [][\A i \in Stored :
          (/\ lastOp'.op = "update"
           /\ "properties" \in DOMAIN lastOp'.args
           /\ components[i].id = lastOp'.id
           /\ components[i].type \in ComponentTypes)
             => DOMAIN components'[i].properties \subseteq KindFields(components[i].type)]_vars

\* C6: every stored component has a declared kind and a properties bundle
\* with exactly the fields of that kind.
KindAndPropertiesMatch ==
    \A i \in Stored :
        /\ components[i].type \in ComponentTypes
        /\ DOMAIN components[i].properties = KindFields(components[i].type)

\* C7: the ids of the stored components are pairwise distinct.
IdsPairwiseDistinct ==
    \A i, j \in Stored : i # j => components[i].id # components[j].id

\* C8: add appends one component with rotation 0, position (200,200), the
\* given displayName and kind and the default properties of the kind; the
\* components stored before are unchanged and keep their order.
AddAppendsOne ==
    [][lastOp'.op = "add"
          => /\ Len(components') = Len(components) + 1
             /\ SubSeq(components', 1, Len(components)) = components
             /\ LET added == components'[Len(components')]
                IN /\ added.rotation = 0
                   /\ added.position = [x |-> 200, y |-> 200]
                   /\ added.type = lastOp'.args.type
                   /\ added.displayName = lastOp'.args.displayName
                   /\ added.properties = getDefaultProperties(lastOp'.args.type)
                   /\ added.id = lastOp'.id]_vars

\* A component was added after an edited one.
AddWitness ==
    /\ lastOp.op = "add"
    /\ Len(components) = 2
    /\ components[1].rotation = 360
    /\ components[2].rotation = 0

\* C9: update and remove with an id that no stored component has change
\* neither the component list nor the selection nor the stored result, and
\* report nothing.
UnknownIdIsNoOp ==
    [][(/\ lastOp'.op \in {"update", "remove"}
        /\ lastOp'.id \notin Ids(components))
          => /\ UNCHANGED <<components, selectedId, simulationResult>>
             /\ lastOp'.alert = ""]_vars

\* remove was called with an unknown id while a component is selected and a
\* result is stored.
UnknownIdWitness ==
    /\ lastOp.op = "remove"
    /\ ~lastOp.found
    /\ Len(components) = 2
    /\ selectedId # NULL
    /\ simulationResult # NoResult

\* C10: remove of a stored id deletes exactly that component, keeps the
\* others in order, clears the selection if it was the removed component and
\* keeps it otherwise.
RemoveDeletesExactlyOne ==
    [][(/\ lastOp'.op = "remove"
        /\ lastOp'.id \in Ids(components))
          => /\ Len(components') = Len(components) - 1
             /\ components' = SelectSeq(components, LAMBDA comp : comp.id # lastOp'.id)
             /\ selectedId' = IF selectedId = lastOp'.id THEN NULL ELSE selectedId]_vars

\* C11: importing a file that parses but has no components field, or whose
\* components field is not an array, leaves the component list, the sweep
\* settings, the selection and the stored result as they were and reports an
\* error to the user.
MalformedImportChangesNothing ==
    [][(/\ lastOp'.op = "import"
        /\ lastOp'.args.parses
        /\ \/ "components" \notin DOMAIN lastOp'.args.setup
           \/ ~lastOp'.args.setup.components.isArray)
          => /\ UNCHANGED <<components, simulationSettings, selectedId,
                            simulationResult>>
             /\ lastOp'.alert # ""]_vars

\* C12: export followed by import of the exported file is lossless: the
\* component list after the import is the list that was exported (same
\* ids, kinds, positions, rotations, displayNames and properties, in the
\* same order) and the sweep settings are the same.
RoundTripLossless ==
    [][(/\ lastOp.op = "export"
        /\ lastOp'.op = "import"
        /\ lastOp'.args = lastOp.args)
          => /\ components' = components
             /\ simulationSettings' = simulationSettings]_vars

(***************************************************************************)
(* The overlay.  The properties read the rendered overlay against the      *)
(* props it was rendered from and state the geometry on its own terms.     *)
(***************************************************************************)
Rendered == overlay # NotRendered

CurrentRays == raysOf(simulationResult)

\* The labels of the scenes that are "prism" but for the case of letters.
Dispersive(c) ==
    /\ "displayName" \in DOMAIN c
    /\ c.displayName \in {"prism", "Prism", "PRISM"}

\* The square of the distance between two points.
SqDist(p, q) ==
    (p.x - q.x) * (p.x - q.x) + (p.y - q.y) * (p.y - q.y)

\* A fraction in lowest terms.
Reduced(f) ==
    LET g == GCD(f.num, f.den)
    IN [num |-> f.num \div g, den |-> f.den \div g]

\* The unclamped t of p over the segment from p1 to p2, as the pair of its
\* numerator dot(p - p1, p2 - p1) and its denominator |p2 - p1|^2.
ProjectionT(p, p1, p2) ==
    [dot |-> (p.x - p1.x) * (p2.x - p1.x) + (p.y - p1.y) * (p2.y - p1.y),
     len |-> SqDist(p1, p2)]

\* The square of the distance from p to the segment from p1 to p2: to p1
\* for a segment of one point, to an endpoint when the foot of the
\* perpendicular is off the segment, and else the perpendicular distance
\* |cross(p - p1, p2 - p1)| / |p2 - p1|.
SegmentSqDist(p, p1, p2) ==
    LET t == ProjectionT(p, p1, p2)
        cross == (p.x - p1.x) * (p2.y - p1.y) - (p.y - p1.y) * (p2.x - p1.x)
    IN IF t.len = 0 THEN [num |-> SqDist(p, p1), den |-> 1]
       ELSE IF t.dot < 0 THEN [num |-> SqDist(p, p1), den |-> 1]
       ELSE IF t.dot > t.len THEN [num |-> SqDist(p, p2), den |-> 1]
       ELSE Reduced([num |-> cross * cross, den |-> t.len])

\* The (ray, segment, component) triples of the scene: r and c are indices,
\* i is the segment index from 0.
Triples ==
    UNION { { <<r, i, c>> : i \in 0..(Len(CurrentRays[r].points) - 2),
                            c \in 1..Len(components) } :
            r \in 1..Len(CurrentRays) }

TripleSqDist(tr) ==
    SegmentSqDist(components[tr[3]].position,
                  CurrentRays[tr[1]].points[tr[2] + 1],
                  CurrentRays[tr[1]].points[tr[2] + 2])

\* The triples with a dispersive component within 24 of the segment.
Interacting ==
    { tr \in Triples : /\ Dispersive(components[tr[3]])
                       /\ TripleSqDist(tr).num <= 576 * TripleSqDist(tr).den }

\* C13: the dispersion output is empty when there are no rays, or no
\* dispersive component, or every dispersive component is farther than 24
\* from every segment of every ray.
NoInteractionNoDispersion ==
    (/\ Rendered
     /\ \/ Len(CurrentRays) = 0
        \/ \A c \in 1..Len(components) : ~Dispersive(components[c])
        \/ \A tr \in Triples :
               Dispersive(components[tr[3]])
                   => TripleSqDist(tr).num > 576 * TripleSqDist(tr).den)
        => overlay.dispersionPolys = << >>

\* Rays and a dispersive component are there, the component is 25 away from
\* the only segment, and nothing was emitted.
FarPrismWitness ==
    /\ Rendered
    /\ Len(CurrentRays) > 0
    /\ \E tr \in Triples : /\ Dispersive(components[tr[3]])
                           /\ TripleSqDist(tr) = [num |-> 625, den |-> 1]
    /\ Interacting = {}
    /\ overlay.dispersionPolys = << >>

\* C14: the dispersion output holds one fan of 6 sub-rays for every triple
\* (ray, segment, dispersive component) whose distance is at most 24, a
\* distance of exactly 24 included, and nothing else: its size is 6 times
\* the number of such triples.
OneFanPerInteraction ==
    Rendered =>
        LET polys == overlay.dispersionPolys
            FanId(tr, k) ==
                "disp-" \o CurrentRays[tr[1]].id \o "-" \o ToString(tr[2])
                        \o "-" \o ToString(k)
            InFan(j, tr) ==
                /\ polys[j].points[1] = components[tr[3]].position
                /\ \E k \in 0..5 : polys[j].id = FanId(tr, k)
        IN /\ Len(polys) = 6 * Cardinality(Interacting)
           /\ \A tr \in Interacting : \A k \in 0..5 :
                  \E j \in 1..Len(polys) :
                      /\ polys[j].id = FanId(tr, k)
                      /\ polys[j].points[1] = components[tr[3]].position
           /\ \A j \in 1..Len(polys) : \E tr \in Interacting : InFan(j, tr)

\* Two rays and two dispersive components, every pair within the
\* threshold and one of them at exactly 24: four fans.
FourFansWitness ==
    /\ Rendered
    /\ Len(CurrentRays) = 2
    /\ Cardinality(Interacting) = 4
    /\ \E tr \in Interacting : TripleSqDist(tr) = [num |-> 576, den |-> 1]
    /\ Len(overlay.dispersionPolys) = 24

\* The palette from violet to red.
VioletToRed ==
    << "#8B00FF", "#0000FF", "#00FF00", "#FFFF00", "#FFA500", "#FF0000" >>

\* C15: the output is a sequence of fans of 6; the k-th sub-ray of a fan
\* (k from 0) has 2 points, starts at the position of the fan's dispersive
\* component, has the k-th colour from violet to red, opacity 0.85 and
\* width 2, and is deflected by (10 - k)/10 of theta_max = 0.18 rad: by
\* theta_max for violet, by half of it for red, strictly less from one
\* colour to the next.
FanShape ==
    Rendered =>
        \A j \in 1..Len(overlay.dispersionPolys) :
            LET polys == overlay.dispersionPolys
                k == (j - 1) % 6
                first == polys[j - k]
                sub == polys[j]
            IN /\ Len(sub.points) = 2
               /\ sub.points[1] = first.points[1]
               /\ \E c \in 1..Len(components) :
                      /\ Dispersive(components[c])
                      /\ sub.points[1] = components[c].position
               /\ sub.points[2].from = sub.points[1]
               /\ sub.color = VioletToRed[k + 1]
               /\ sub.opacity = 85
               /\ sub.width = 2
               /\ 10 * sub.points[2].angle = (10 - k) * 180
               /\ k > 0 => sub.points[2].angle < polys[j - 1].points[2].angle

\* The scenario of the specification: a source at (100,100), a "Prism" lens
\* at (300,100) and one ray from (100,100) to (500,100) give one fan at
\* (300,100).
ScenarioFanWitness ==
    /\ Rendered
    /\ Len(components) = 2
    /\ components[1].type = "source"
    /\ components[1].position = [x |-> 100, y |-> 100]
    /\ components[2].position = [x |-> 300, y |-> 100]
    /\ Len(CurrentRays) = 1
    /\ Len(overlay.dispersionPolys) = 6
    /\ overlay.dispersionPolys[1].points[2].angle = 180
    /\ overlay.dispersionPolys[6].points[2].angle = 90

\* C16: every emitted sub-ray has length 240: its end is at distance 240
\* from the dispersive component's position, segments with p1 = p2
\* included, and so differs from its start.
SubRayLengthIsL ==
    Rendered =>
        \A j \in 1..Len(overlay.dispersionPolys) :
            LET sub == overlay.dispersionPolys[j]
            IN /\ endDistanceSq(sub.points[2]) = 240 * 240
               /\ endDistanceSq(sub.points[2]) # 0

\* The pairs of a component and a ray segment of the scene, as the point p
\* and the ends p1, p2 of the segment.
PointsAndSegments ==
    { [p |-> components[tr[3]].position,
       p1 |-> CurrentRays[tr[1]].points[tr[2] + 1],
       p2 |-> CurrentRays[tr[1]].points[tr[2] + 2]] : tr \in Triples }

\* distancePointToSegment for such a pair, in lowest terms.
Computed(q) ==
    Reduced(distancePointToSegment(q.p.x, q.p.y, q.p1.x, q.p1.y, q.p2.x, q.p2.y))

\* C17: distancePointToSegment(p, p1, p2) is the distance from p to the
\* point of the segment at t = dot(p - p1, p2 - p1)/|p2 - p1|^2 clamped to
\* [0,1]: 0 for p on the segment, the distance to the nearer endpoint for t
\* outside [0,1], the distance to p1 for p1 = p2.
DistanceIsToClampedProjection ==
    Rendered =>
        \A q \in PointsAndSegments :
            LET t == ProjectionT(q.p, q.p1, q.p2)
                cross == (q.p.x - q.p1.x) * (q.p2.y - q.p1.y)
                             - (q.p.y - q.p1.y) * (q.p2.x - q.p1.x)
                nearer == IF SqDist(q.p, q.p1) <= SqDist(q.p, q.p2)
                          THEN SqDist(q.p, q.p1) ELSE SqDist(q.p, q.p2)
            IN /\ Computed(q) = SegmentSqDist(q.p, q.p1, q.p2)
               /\ (t.len # 0 /\ cross = 0 /\ 0 <= t.dot /\ t.dot <= t.len)
                      => Computed(q).num = 0
               /\ (t.len # 0 /\ (t.dot < 0 \/ t.dot > t.len))
                      => Computed(q) = [num |-> nearer, den |-> 1]
               /\ q.p1 = q.p2 => Computed(q) = [num |-> SqDist(q.p, q.p1), den |-> 1]

\* A component beyond the end of a segment (t > 1), at 20 from that end,
\* and one beside a segment that is not parallel to an axis.
ClampedAndSlantedWitness ==
    /\ Rendered
    /\ \E q \in PointsAndSegments :
           /\ ProjectionT(q.p, q.p1, q.p2).dot > ProjectionT(q.p, q.p1, q.p2).len
           /\ Computed(q) = [num |-> 400, den |-> 1]
    /\ \E q \in PointsAndSegments :
           /\ q.p1.x # q.p2.x
           /\ q.p1.y # q.p2.y
           /\ Computed(q) = [num |-> 288, den |-> 1]

\* The screen point of a world point under the current transform
\* [translateX, translateY, zoom].
OnScreen(p) ==
    [x |-> p.x * zoom(transform) + tx(transform),
     y |-> p.y * zoom(transform) + ty(transform)]

\* C18: the overlay draws every world point (x, y) of the halos, the base
\* rays and the dispersion polylines at the screen point (x * zoom +
\* translateX, y * zoom + translateY); under [10, -5, 2] the world point
\* (50, 50) is drawn at (110, 95).
OverlayFollowsViewport ==
    Rendered =>
        /\ \A j \in 1..Len(overlay.sourceHalos) :
               overlay.screen.halos[j] = OnScreen(overlay.sourceHalos[j])
        /\ \A r \in 1..Len(CurrentRays) :
               \A j \in 1..Len(CurrentRays[r].points) :
                   overlay.screen.rays[r][j] = OnScreen(CurrentRays[r].points[j])
        /\ \A j \in 1..Len(overlay.dispersionPolys) :
               overlay.screen.polys[j] = OnScreen(overlay.dispersionPolys[j].points[1])
        /\ transform = <<10, -5, 2>> =>
               \A j \in 1..Len(overlay.sourceHalos) :
                   overlay.sourceHalos[j] = [x |-> 50, y |-> 50]
                       => overlay.screen.halos[j] = [x |-> 110, y |-> 95]

\* The diagram was panned and zoomed to [10, -5, 2]; a halo at (50, 50) is
\* drawn at (110, 95), and a ray and a fan are drawn as well.
PannedAndZoomedWitness ==
    /\ Rendered
    /\ transform = <<10, -5, 2>>
    /\ Len(overlay.sourceHalos) = 1
    /\ overlay.sourceHalos[1] = [x |-> 50, y |-> 50]
    /\ overlay.screen.halos[1] = [x |-> 110, y |-> 95]
    /\ Len(CurrentRays) > 0
    /\ Len(overlay.dispersionPolys) > 0

\* C20: the dispersive list holds, in the order of the registry, all and
\* only the components whose displayName is "prism" but for the case of
\* letters: "Prism" and "PRISM" of any kind are in it, a component with no
\* displayName, with "Lens" or with "prism " is not.
PrismsByLabelOnly ==
    Rendered =>
        /\ overlay.prisms = SelectSeq(components, LAMBDA c : Dispersive(c))
        /\ \A i \in 1..Len(components) :
               LET c == components[i]
                   listed == \E j \in 1..Len(overlay.prisms) : overlay.prisms[j] = c
               IN /\ ("displayName" \in DOMAIN c /\ c.displayName \in {"Prism", "PRISM"})
                      => listed
                  /\ ("displayName" \notin DOMAIN c \/ c.displayName \in {"Lens", "prism "})
                      => ~listed

\* A mirror labelled "PRISM" is listed, the lens labelled "prism " beside
\* it is not.
UpperCaseMirrorWitness ==
    /\ Rendered
    /\ Len(components) = 2
    /\ components[1].type = "mirror"
    /\ components[1].displayName = "PRISM"
    /\ "displayName" \in DOMAIN components[2]
    /\ components[2].displayName = "prism "
    /\ overlay.prisms = << components[1] >>

\* C21: whenever the Canvas has rendered the current components and rays,
\* the dispersion polylines and the source halos it shows are the ones
\* computed from them: nothing derived from an earlier component list or
\* from earlier rays is shown.
OverlayIsCurrent ==
    Committed =>
        /\ overlay.prisms = prisms(components)
        /\ overlay.dispersionPolys =
               dispersionPolys(CurrentRays, prisms(components))
        /\ overlay.sourceHalos = sourceHalos(components)

\* A prism was dragged onto the ray after an earlier render: the fan and
\* the halo of the source are shown.
DraggedPrismWitness ==
    /\ Committed
    /\ lastOp.op = "update"
    /\ "position" \in DOMAIN lastOp.args
    /\ Len(overlay.dispersionPolys) = 6
    /\ Len(overlay.sourceHalos) = 1

\* C22: with no transform the overlay uses translateX = 0, translateY = 0
\* and zoom = 1, an entry that is missing takes its default whatever the
\* others are, and a whole transform is used as it is in the render that
\* follows its change.
ViewIsTransformOrIdentity ==
    Rendered =>
        /\ transform = << >> => overlay.view = [tx |-> 0, ty |-> 0, zoom |-> 1]
        /\ transform = <<7>> => overlay.view = [tx |-> 7, ty |-> 0, zoom |-> 1]
        /\ Len(transform) = 3 =>
               overlay.view = [tx |-> transform[1], ty |-> transform[2],
                               zoom |-> transform[3]]

\* The store holds a transform with its first entry only; a halo at
\* (50, 50) is drawn at (57, 50).
PartialTransformWitness ==
    /\ Rendered
    /\ transform = <<7>>
    /\ overlay.view = [tx |-> 7, ty |-> 0, zoom |-> 1]
    /\ Len(overlay.sourceHalos) = 1
    /\ overlay.sourceHalos[1] = [x |-> 50, y |-> 50]
    /\ overlay.screen.halos[1] = [x |-> 57, y |-> 50]

\* C23: the ids of the polylines of one dispersion output are pairwise
\* distinct.
PolylineIdsDistinct ==
    Rendered =>
        \A i, j \in 1..Len(overlay.dispersionPolys) :
            i # j => overlay.dispersionPolys[i].id # overlay.dispersionPolys[j].id

\* C24: isSimulating is true exactly while at least one simulation request
\* is in flight: with two overlapping runs it stays true until both have
\* resolved.
SimulatingWhileInFlight ==
    isSimulating <=> inflight # {}

\* C25: after an import the stored result stays null until a run started
\* after the import succeeds.  A response that arrives as the first event
\* after an import is of a run submitted before the import: it is not
\* stored.
NoStaleResultAfterImport ==
    [][(/\ lastOp.op = "import"
        /\ lastOp.alert = ""
        /\ lastOp'.op = "runSucceeded")
          => simulationResult' = NoResult]_vars

\* C26: two edits of different fields of the selected component, the second
\* built from the panel's snapshot taken before the first was applied, both
\* persist, for two property fields and for x and y of the position.
BothEditsPersist ==
    [][lastOp'.op = "edits" =>
          \A i \in 1..Len(components') :
              components'[i].id = lastOp'.id =>
                  LET pair == lastOp'.args
                      edited == IF pair.kind = "properties"
                                THEN components'[i].properties
                                ELSE components'[i].position
                  IN /\ edited[pair.first.key] = pair.first.value
                     /\ edited[pair.second.key] = pair.second.value]_vars

\* C27: the selection is null or the id of a component of the list.
SelectionIsStored ==
    selectedId = NULL \/ selectedId \in Ids(components)

\* A component was removed while another one was selected: the selection
\* stays on the component that is left.
SelectionSurvivesWitness ==
    /\ lastOp.op = "remove"
    /\ lastOp.found
    /\ Len(components) = 1
    /\ selectedId = components[1].id

\* C28: update(id, u) on a stored id changes one component and, of it, the
\* fields of u only: its id and kind, every other component, the order and
\* the length of the list, the selection and the stored result stay.
UpdateChangesOneComponent ==
    [][(/\ lastOp'.op = "update"
        /\ lastOp'.id \in Ids(components))
          => /\ Len(components') = Len(components)
             /\ UNCHANGED <<selectedId, simulationResult>>
             /\ \E i \in Stored :
                    /\ components[i].id = lastOp'.id
                    /\ \A j \in Stored \ {i} : components'[j] = components[j]
                    /\ components'[i].id = components[i].id
                    /\ components'[i].type = components[i].type
                    /\ \A f \in DOMAIN components[i] \ DOMAIN lastOp'.args :
                           components'[i][f] = components[i][f]
                    /\ \A f \in DOMAIN lastOp'.args :
                           components'[i][f] = lastOp'.args[f]]_vars

\* C29: run with an empty component list submits no request and changes no
\* state: isSimulating, the stored result, the components, the settings
\* and the selection stay as they are.
EmptyRunChangesNothing ==
    [][(/\ Len(components) = 0
        /\ lastOp'.op \in {"runRefused", "runSubmit"})
          => /\ lastOp'.op = "runRefused"
             /\ UNCHANGED <<inflight, nextReq, isSimulating, simulationResult,
                            components, simulationSettings, selectedId>>]_vars

\* run was refused after the last component was removed, with a result of
\* an earlier run stored.
RefusedRunWitness ==
    /\ lastOp.op = "runRefused"
    /\ Len(components) = 0
    /\ simulationResult # NoResult
    /\ ~isSimulating

====
